---- MODULE Spec2Model ----
(***************************************************************************)
(* vocabudaily: the word store (WordProvider / HomeScreen) and the daily   *)
(* notification scheduler (notifications.js), as one state machine.        *)
(*                                                                         *)
(* The WordProvider component holds three React state cells (wordData,     *)
(* loading, error).  fetchWord is an async function with two await points  *)
(* (the HTTP round trip and response.json()); every call is one entry of   *)
(* `fetches`, whose pc says where the call is suspended.  HomeScreen's     *)
(* mount effect calls fetchWord and starts the arm sequence                *)
(* (requestNotificationPermissions, then scheduleDailyNotification); every *)
(* started arm sequence is one entry of `arms`.  The operating system's    *)
(* list of scheduled notifications is `scheduled`.                         *)
(*                                                                         *)
(* JavaScript runs each continuation to its next await without             *)
(* interleaving, so one action is one such run.  The provider lives for    *)
(* the whole behaviour; HomeScreen, its consumer, may be torn down and     *)
(* mounted again (its effect has an explicit cleanup), which runs its      *)
(* mount effect again while the provider keeps its state.                  *)
(***************************************************************************)
EXTENDS Integers, Sequences, FiniteSets

\* Bounds of the model.
MaxFetches == 3        \* fetchWord invocations in one behaviour
MaxMounts == 2         \* HomeScreen mounts (arm sequences) in one behaviour

VARIABLES
    wordData,          \* useState(null): the parsed body, or Null
    loading,           \* useState(true)
    error,             \* useState(null): the failure's message, or Null
    fetches,           \* one record per fetchWord invocation, in call order
    alone,             \* history: no other call has been in flight since the
                       \* latest fetchWord call started
    providerEffectRan, \* WordProvider's mount effect has run
    homeMounted,       \* HomeScreen is mounted (its effect ran, not cleaned up)
    mounts,            \* history: number of HomeScreen mounts so far
    retries,           \* history: number of presses of the Retry control
    aborted,           \* number of AbortControllers aborted by the cleanup
    arms,              \* one record per started arm sequence, in start order
    permission,        \* the OS's notification permission for this app
    scheduled,         \* the OS's scheduled notifications of this app
    console            \* the lines written to the console so far

vars == <<wordData, loading, error, fetches, alone, providerEffectRan, homeMounted,
          mounts, retries, aborted, arms, permission, scheduled,
          console>>

storeVars == <<wordData, loading, error, fetches, alone>>
uiVars == <<providerEffectRan, homeMounted, mounts, retries, aborted>>
armVars == <<arms, permission, scheduled>>

----------------------------------------------------------------------------
(* Values *)

\* JavaScript null.
Null == [null |-> TRUE]

\* Parsed response bodies the endpoint may answer with: a full record and a
\* body without the word field.
Lucid == [word |-> "lucid",
          definitions |-> <<[text |-> "clear", source |-> "Dict"]>>,
          examples |-> <<>>,
          note |-> Null]
NoWord == [definitions |-> <<[text |-> "clear", source |-> "Dict"]>>,
           examples |-> <<>>,
           note |-> Null]
Bodies == {Lucid, NoWord}

\* HTTP status codes the endpoint may answer with.
Statuses == {200, 404, 500}

\* A status test that takes only the 5xx codes for failures.
OkBelow500(status) == status < 500

\* response.ok: the status is in the range 200-299.
ResponseOk(status) == status >= 200 /\ status <= 299

\* `HTTP error! Status: ${response.status}`: the template's text and the
\* status interpolated into it.
HttpErrorMessage(status) == [text |-> "HTTP error! Status: ", status |-> status]

\* The message of the TypeError with which fetch() rejects on a transport
\* failure, and of the SyntaxError with which response.json() rejects.
NetworkMessages == {[text |-> "Network request failed"]}
ParseMessages == {[text |-> "JSON Parse error"]}

\* The console lines the program writes: console.error in fetchWord's catch,
\* console.warn in requestNotificationPermissions.
ErrorLine == [level |-> "error", text |-> "Error fetching word:"]
WarnLine == [level |-> "warn", text |-> "Notification permissions not granted."]

----------------------------------------------------------------------------
(* The store: WordProvider *)

\* The view HomeScreen renders: loading first, then error, then the record.
View ==
    IF loading THEN "Loading"
    ELSE IF error # Null THEN "Failure"
    ELSE IF wordData # Null THEN "Success"
    ELSE "NoData"

\* The word HomeScreen shows for a record: wordData.word || "No word available".
WordShown(record) ==
    IF "word" \in DOMAIN record /\ record.word # ""
    THEN record.word
    ELSE "No word available"

Pending(i) == fetches[i].pc \in {"awaitFetch", "awaitJson"}
Completed(i) == fetches[i].pc \in {"fulfilled", "rejected"}

\* A fetchWord that returns at once while a request is pending.
GuardedFetchWordCall ==
    IF \E j \in 1..Len(fetches) : Pending(j)
    THEN UNCHANGED <<wordData, loading, error, fetches, alone, console>>
    ELSE /\ Len(fetches) < MaxFetches
         /\ loading' = TRUE
         /\ error' = Null
         /\ fetches' = Append(fetches, [pc |-> "awaitFetch"])
         /\ alone' = TRUE
         /\ UNCHANGED <<wordData, console>>

\* fetchWord up to its first await: setLoading(true), setError(null), and the
\* HTTP GET is issued.
FetchWordCall ==
    /\ Len(fetches) < MaxFetches
    /\ loading' = TRUE
    /\ error' = Null
    /\ fetches' = Append(fetches, [pc |-> "awaitFetch"])
    /\ alone' = \A j \in 1..Len(fetches) : ~Pending(j)
    /\ UNCHANGED <<wordData, console>>

\* fetchWord without its catch block: the finally block runs and the Error
\* leaves the async function, whose promise rejects.
NoCatch(i, thrown) ==
    /\ loading' = FALSE
    /\ fetches' = [fetches EXCEPT ![i].pc = "rejected"]
    /\ UNCHANGED <<wordData, error, alone, console>>

\* A catch block that calls fetchWord again.
AutoRetryCatch(i, thrown) ==
    /\ Len(fetches) < MaxFetches
    /\ console' = console \cup {ErrorLine}
    /\ error' = Null
    /\ loading' = TRUE
    /\ fetches' = Append([fetches EXCEPT ![i].pc = "fulfilled"],
                         [pc |-> "awaitFetch"])
    /\ alone' = \A j \in 1..Len(fetches) : j = i \/ ~Pending(j)
    /\ UNCHANGED wordData

\* The catch and finally blocks of fetchWord for fetch i, `thrown` being the
\* message of the Error thrown in the try block: console.error,
\* setError(error.message), setLoading(false), and the async function returns
\* normally.
CatchFinally(i, thrown) ==
    /\ console' = console \cup {ErrorLine}
    /\ error' = thrown
    /\ loading' = FALSE
    /\ fetches' = [fetches EXCEPT ![i].pc = "fulfilled"]
    /\ UNCHANGED <<wordData, alone>>

\* A fetchWord that fills in the placeholder word when it stores the body.
NormalisingFinally(i, data) ==
    /\ wordData' = IF "word" \in DOMAIN data
                   THEN data
                   ELSE [word |-> "No word available",
                         definitions |-> data.definitions,
                         examples |-> data.examples,
                         note |-> data.note]
    /\ loading' = FALSE
    /\ fetches' = [fetches EXCEPT ![i].pc = "fulfilled"]
    /\ UNCHANGED <<error, alone, console>>

\* A fetchWord that throws on a body without a word.
StrictFinally(i, data) ==
    IF "word" \in DOMAIN data
    THEN /\ wordData' = data
         /\ loading' = FALSE
         /\ fetches' = [fetches EXCEPT ![i].pc = "fulfilled"]
         /\ UNCHANGED <<error, alone, console>>
    ELSE CatchFinally(i, [text |-> "Missing word"])

\* A fetchWord whose success path leaves loading as it is.
SuccessNoFinally(i, data) ==
    /\ wordData' = data
    /\ fetches' = [fetches EXCEPT ![i].pc = "fulfilled"]
    /\ UNCHANGED <<loading, error, alone, console>>

\* A fetchWord whose success path also clears error.
SuccessClearsError(i, data) ==
    /\ wordData' = data
    /\ error' = Null
    /\ loading' = FALSE
    /\ fetches' = [fetches EXCEPT ![i].pc = "fulfilled"]
    /\ UNCHANGED <<alone, console>>

\* setWordData(data) and the finally block, for fetch i.
SuccessFinally(i, data) ==
    /\ wordData' = data
    /\ loading' = FALSE
    /\ fetches' = [fetches EXCEPT ![i].pc = "fulfilled"]
    /\ UNCHANGED <<error, alone, console>>

\* A continuation of fetchWord or of the arm sequence may run once the mount
\* effects of the first commit have run: React runs them back to back, so no
\* continuation runs between HomeScreen's first effect and WordProvider's.
Settled == providerEffectRan

\* fetch() of call i rejects: a transport failure.
FetchRejects(i, msg) ==
    /\ Settled
    /\ fetches[i].pc = "awaitFetch"
    /\ CatchFinally(i, msg)
    /\ UNCHANGED <<uiVars, armVars>>

\* fetch() of call i resolves with a response of the given status: a status
\* that is not ok throws, an ok one goes on to await response.json().
FetchResolves(i, status) ==
    /\ Settled
    /\ fetches[i].pc = "awaitFetch"
    /\ UNCHANGED <<uiVars, armVars>>
    /\ IF ~ResponseOk(status)
       THEN CatchFinally(i, HttpErrorMessage(status))
       ELSE /\ fetches' = [fetches EXCEPT ![i].pc = "awaitJson"]
            /\ UNCHANGED <<wordData, loading, error, alone, console>>

\* response.json() of call i resolves with the parsed body.
JsonResolves(i, data) ==
    /\ Settled
    /\ fetches[i].pc = "awaitJson"
    /\ SuccessFinally(i, data)
    /\ UNCHANGED <<uiVars, armVars>>

\* response.json() of call i rejects: the body is not JSON.
JsonRejects(i, msg) ==
    /\ Settled
    /\ fetches[i].pc = "awaitJson"
    /\ CatchFinally(i, msg)
    /\ UNCHANGED <<uiVars, armVars>>

----------------------------------------------------------------------------
(* The scheduler: notifications.js *)

\* The hour and minute both variants of scheduleDailyNotification write into
\* the trigger.
TriggerHour == 9
TriggerMinute == 0

\* The content both variants hand to scheduleNotificationAsync.
Content ==
    [title |-> "Word of the Day", body |-> "Tap to learn your new word!",
     sound |-> TRUE]

\* notifications.js holds two variants of scheduleDailyNotification: the first
\* names the DAILY trigger type, the second computes the next occurrence of
\* 9:00 and passes hour, minute and repeats.
Variants == {1, 2}

\* Times of day at which scheduleDailyNotification may run (new Date()):
\* before, at and after 9:00.
Times ==
    {[hour |-> 8, minute |-> 59], [hour |-> 9, minute |-> 0],
     [hour |-> 9, minute |-> 1], [hour |-> 23, minute |-> 59]}

\* localTime of the second variant: today at 9:00:00.000, moved to tomorrow
\* when that is not after now.
NextOccurrence(now) ==
    [dayOffset |-> IF \/ TriggerHour < now.hour
                      \/ TriggerHour = now.hour /\ TriggerMinute <= now.minute
                   THEN 1 ELSE 0,
     hour |-> TriggerHour, minute |-> TriggerMinute]

\* A second variant that passes the date it computed as the trigger.
DatedTrigger(variant, now) ==
    IF variant = 1
    THEN [type |-> "daily", hour |-> TriggerHour, minute |-> TriggerMinute]
    ELSE [date |-> NextOccurrence(now)]

\* The trigger each variant hands to scheduleNotificationAsync at time now.
\* The second variant computes localTime and does not use it.
TriggerInput(variant, now) ==
    IF variant = 1
    THEN [type |-> "daily", hour |-> TriggerHour, minute |-> TriggerMinute]
    ELSE LET localTime == NextOccurrence(now)
         IN  [hour |-> TriggerHour, minute |-> TriggerMinute, repeats |-> TRUE]

\* The schedule the OS holds for a trigger: the DAILY type, and hour and
\* minute with repeats, both fire every day at hour:minute; a date fires once.
Installed(trigger) ==
    IF "date" \in DOMAIN trigger
    THEN [date |-> trigger.date, daily |-> FALSE]
    ELSE [hour |-> trigger.hour, minute |-> trigger.minute,
          daily |-> \/ "type" \in DOMAIN trigger /\ trigger.type = "daily"
                    \/ "repeats" \in DOMAIN trigger /\ trigger.repeats]

\* The notification the OS holds after scheduleDailyNotification's call of
\* scheduleNotificationAsync.
DailyNotification(variant, now) ==
    [content |-> Content, trigger |-> Installed(TriggerInput(variant, now))]

InFlight(a) == arms[a].pc \in {"requestPermissions", "cancelAll", "schedule"}

\* The arm sequence up to its first await: requestNotificationPermissions()
\* has called Notifications.requestPermissionsAsync().
ArmStart ==
    arms' = Append(arms, [pc |-> "requestPermissions"])

\* A requestNotificationPermissions that throws when permission is refused.
ThrowOnDenied(a, status) ==
    /\ arms' = [arms EXCEPT ![a].pc =
                    IF status # "granted" THEN "rejected" ELSE "cancelAll"]
    /\ UNCHANGED <<scheduled, console>>

\* requestNotificationPermissions after its await, the OS having answered
\* `status`: warn unless granted, return; the caller then enters
\* scheduleDailyNotification, which calls cancelScheduledNotifications.
RequestNotificationPermissions(a, status) ==
    /\ console' = IF status # "granted" THEN console \cup {WarnLine}
                                       ELSE console
    /\ arms' = [arms EXCEPT ![a].pc = "cancelAll"]
    /\ UNCHANGED scheduled

\* Notifications.requestPermissionsAsync() resolves for arm a.  The OS asks
\* the user once and answers every later request with the same status.
PermissionsResolve(a, status) ==
    /\ Settled
    /\ arms[a].pc = "requestPermissions"
    /\ UNCHANGED <<storeVars, uiVars>>
    /\ permission \in {"undetermined", status}
    /\ permission' = status
    /\ RequestNotificationPermissions(a, status)

\* A cancel that leaves the scheduled notifications in place.
CancelNothing == scheduled

\* cancelAllScheduledNotificationsAsync: the OS drops every scheduled
\* notification of the app.
CancelScheduledNotifications == <<>>

\* A scheduleDailyNotification that does not await the cancel: the schedule is
\* created while cancelAllScheduledNotificationsAsync is still pending.
ScheduleBeforeCancel(a) ==
    /\ Settled
    /\ arms[a].pc = "cancelAll"
    /\ UNCHANGED <<storeVars, uiVars>>
    /\ scheduled' = Append(scheduled, DailyNotification(1, [hour |-> 8, minute |-> 0]))
    /\ arms' = [arms EXCEPT ![a].pc = "schedule"]
    /\ UNCHANGED <<permission, console>>

\* cancelScheduledNotifications resolves for arm a; scheduleDailyNotification
\* goes on to call scheduleNotificationAsync.
CancelResolves(a) ==
    /\ Settled
    /\ arms[a].pc = "cancelAll"
    /\ UNCHANGED <<storeVars, uiVars>>
    /\ scheduled' = CancelScheduledNotifications
    /\ arms' = [arms EXCEPT ![a].pc = "schedule"]
    /\ UNCHANGED <<permission, console>>

\* scheduleNotificationAsync resolves for arm a: the OS holds one more
\* notification, and the arm sequence ends.
ScheduleResolves(a) ==
    /\ Settled
    /\ arms[a].pc = "schedule"
    /\ UNCHANGED <<storeVars, uiVars>>
    /\ \E variant \in Variants : \E now \in Times :
          scheduled' = Append(scheduled, DailyNotification(variant, now))
    /\ arms' = [arms EXCEPT ![a].pc = "fulfilled"]
    /\ UNCHANGED <<permission, console>>

\* An arm sequence that reports a rejected OS call through the store's error.
OsCallRejectsIntoStore(a) ==
    /\ Settled
    /\ InFlight(a)
    /\ error' = [text |-> "Notification scheduling failed"]
    /\ arms' = [arms EXCEPT ![a].pc = "rejected"]
    /\ UNCHANGED <<wordData, loading, fetches, alone, uiVars, permission,
                   scheduled, console>>

\* An OS call awaited by arm a rejects.  Neither function of notifications.js
\* nor the caller in HomeScreen's effect has a try/catch: the async function
\* ends in a rejected promise and nothing is logged.
OsCallRejects(a) ==
    /\ Settled
    /\ InFlight(a)
    /\ UNCHANGED <<storeVars, uiVars>>
    /\ arms' = [arms EXCEPT ![a].pc = "rejected"]
    /\ UNCHANGED <<permission, scheduled, console>>

----------------------------------------------------------------------------
(* Mounting *)

\* HomeScreen's mount effect: fetchWord(), then the arm sequence is started.
HomeScreenMount ==
    /\ ~homeMounted
    /\ mounts < MaxMounts
    /\ FetchWordCall
    /\ ArmStart
    /\ homeMounted' = TRUE
    /\ mounts' = mounts + 1
    /\ UNCHANGED <<providerEffectRan, retries, aborted, permission, scheduled,
                   console>>

\* WordProvider's mount effect, which React runs after its child's:
\* fetchWord() unless a record is held.
WordProviderMount ==
    /\ homeMounted
    /\ ~providerEffectRan
    /\ providerEffectRan' = TRUE
    /\ IF wordData = Null
       THEN FetchWordCall
       ELSE UNCHANGED <<storeVars, console>>
    /\ UNCHANGED <<homeMounted, mounts, retries, aborted, armVars>>

\* A cleanup whose controller is wired to the requests: every pending fetch
\* rejects with the abort and its catch and finally run.
UnmountAborts ==
    /\ homeMounted
    /\ providerEffectRan
    /\ homeMounted' = FALSE
    /\ aborted' = aborted + 1
    /\ fetches' = [i \in 1..Len(fetches) |->
                     IF Pending(i) THEN [pc |-> "fulfilled"] ELSE fetches[i]]
    /\ IF \E i \in 1..Len(fetches) : Pending(i)
       THEN /\ error' = [text |-> "Aborted"]
            /\ loading' = FALSE
            /\ console' = console \cup {ErrorLine}
       ELSE UNCHANGED <<error, loading, console>>
    /\ UNCHANGED <<wordData, alone, providerEffectRan, mounts, retries, armVars>>

\* The cleanup of HomeScreen's effect: controller.abort(), on a controller
\* whose signal was passed to nothing.
HomeScreenUnmount ==
    /\ homeMounted
    /\ providerEffectRan
    /\ homeMounted' = FALSE
    /\ aborted' = aborted + 1
    /\ UNCHANGED <<storeVars, providerEffectRan, mounts, retries, armVars,
                   console>>

\* The Retry control, rendered in the Failure view only: onPress={fetchWord}.
RetryPress ==
    /\ homeMounted
    /\ providerEffectRan
    /\ View = "Failure"
    /\ FetchWordCall
    /\ retries' = retries + 1
    /\ UNCHANGED <<providerEffectRan, homeMounted, mounts, aborted, armVars>>

----------------------------------------------------------------------------
(* The specification *)

Init ==
    /\ wordData = Null
    /\ loading = TRUE
    /\ error = Null
    /\ fetches = <<>>
    /\ alone = FALSE
    /\ providerEffectRan = FALSE
    /\ homeMounted = FALSE
    /\ mounts = 0
    /\ retries = 0
    /\ aborted = 0
    /\ arms = <<>>
    /\ permission = "undetermined"
    /\ scheduled = <<>>
    /\ console = {}

Permissions == {"granted", "denied"}

\* Every step but a mount of HomeScreen.
Step ==
    \/ WordProviderMount
    \/ HomeScreenUnmount
    \/ RetryPress
    \/ \E i \in 1..Len(fetches) : \E msg \in NetworkMessages : FetchRejects(i, msg)
    \/ \E i \in 1..Len(fetches) : \E status \in Statuses : FetchResolves(i, status)
    \/ \E i \in 1..Len(fetches) : \E data \in Bodies : JsonResolves(i, data)
    \/ \E i \in 1..Len(fetches) : \E msg \in ParseMessages : JsonRejects(i, msg)
    \/ \E a \in 1..Len(arms) : \E status \in Permissions : PermissionsResolve(a, status)
    \/ \E a \in 1..Len(arms) : CancelResolves(a)
    \/ \E a \in 1..Len(arms) : ScheduleResolves(a)
    \/ \E a \in 1..Len(arms) : OsCallRejects(a)

Next == HomeScreenMount \/ Step

Spec == Init /\ [][Next]_vars

\* arm() calls made in sequence: HomeScreen is mounted again only when no arm
\* sequence is in flight.
SequentialMount ==
    /\ \A a \in 1..Len(arms) : ~InFlight(a)
    /\ HomeScreenMount

SeqNext == SequentialMount \/ Step

SeqSpec == Init /\ [][SeqNext]_vars


\* The continuations of arm sequence a in which the awaited OS call resolves.
ArmStepOf(a) ==
    /\ a \in 1..Len(arms)
    /\ \/ \E status \in Permissions : PermissionsResolve(a, status)
       \/ CancelResolves(a)
       \/ ScheduleResolves(a)

\* The continuations of fetch i: its request answers or fails, its body
\* parses or does not.
FetchStepOf(i) ==
    /\ i \in 1..Len(fetches)
    /\ \/ \E msg \in NetworkMessages : FetchRejects(i, msg)
       \/ \E status \in Statuses : FetchResolves(i, status)
       \/ \E data \in Bodies : JsonResolves(i, data)
       \/ \E msg \in ParseMessages : JsonRejects(i, msg)

\* The program under the assumption that every issued request eventually
\* answers or fails and every body eventually parses or fails to; React runs
\* WordProvider's mount effect in the commit that runs HomeScreen's first.
LiveSpec ==
    /\ Spec
    /\ WF_vars(WordProviderMount)
    /\ \A i \in 1..MaxFetches : WF_vars(FetchStepOf(i))

----------------------------------------------------------------------------
(* Properties *)

AllCompleted == \A i \in 1..Len(fetches) : Completed(i)

\* The step is one of fetchWord call i.
Stepped(i) == fetches'[i].pc # fetches[i].pc

\* The step completes fetchWord call i with a failure whose message is msg: a
\* transport rejection, a status that is not ok, or a body that does not
\* parse.
FailsWith(i, msg) ==
    \/ msg \in NetworkMessages /\ FetchRejects(i, msg)
    \/ \E status \in Statuses :
          /\ ~(status >= 200 /\ status <= 299)
          /\ msg = [text |-> "HTTP error! Status: ", status |-> status]
          /\ FetchResolves(i, status)
    \/ msg \in ParseMessages /\ JsonRejects(i, msg)

AllMessages ==
    NetworkMessages \cup ParseMessages
        \cup {[text |-> "HTTP error! Status: ", status |-> c] : c \in Statuses}

\* C1: when two fetchWord calls overlapped, the store shows the completion
\* that came last once every call has completed: Success with its record and
\* no error if it succeeded, Failure with its message if it failed.
C1_LastCompletionWins ==
    [][\A i \in 1..Len(fetches) :
         (homeMounted /\ Len(fetches) >= 2 /\ Stepped(i) /\ AllCompleted') =>
            /\ \A data \in Bodies :
                  JsonResolves(i, data) =>
                     (View' = "Success" /\ wordData' = data /\ error' = Null)
            /\ \A msg \in AllMessages :
                  FailsWith(i, msg) => (View' = "Failure" /\ error' = msg)]_fetches

\* C2: after the first activation (HomeScreen and WordProvider mounted once,
\* no press of Retry) exactly one HTTP GET has been issued.
C2_OneFetchOnActivation ==
    (providerEffectRan /\ mounts = 1 /\ retries = 0) => Len(fetches) = 1

\* C3: a mount of HomeScreen while the store shows Success issues no request.
C3_NoFetchOnMountInSuccess ==
    [][(View = "Success" /\ mounts' = mounts + 1)
          => Len(fetches') = Len(fetches)]_vars

\* C4: the store never holds a failure message and a record at once.
C4_OneVariant == ~(error # Null /\ wordData # Null)

\* C5: after N >= 1 arm sequences run one after another to their end, every
\* OS call having succeeded, exactly one notification is scheduled.
C5_SequentialArmsScheduleOne ==
    (Len(arms) >= 1 /\ \A a \in 1..Len(arms) : arms[a].pc = "fulfilled")
        => Len(scheduled) = 1

C5_Witness ==
    /\ Len(arms) = 2
    /\ \A a \in 1..Len(arms) : arms[a].pc = "fulfilled"
    /\ Len(scheduled) = 1

\* C6: at most one notification is scheduled in every reachable state, also
\* when two arm sequences interleave.
C6_AtMostOneSchedule == Len(scheduled) <= 1

\* C7: no arm sequence ends in a rejected promise.
C7_ArmNeverRejects == \A a \in 1..Len(arms) : arms[a].pc # "rejected"

\* C8: when the OS answers the permission request with "denied", the warning
\* is written, nothing is thrown and the arm sequence goes on to cancel-all.
C8_DenialIsNotFatal ==
    [][\A a \in 1..Len(arms) :
          (arms[a].pc = "requestPermissions" /\ arms'[a].pc # arms[a].pc
             /\ PermissionsResolve(a, "denied")) =>
              /\ WarnLine \in console'
              /\ arms'[a].pc = "cancelAll"]_arms

\* A refused arm sequence has gone through cancel-all and create.
C8_Witness ==
    /\ permission = "denied"
    /\ WarnLine \in console
    /\ Len(scheduled) = 1
    /\ \E a \in 1..Len(arms) : arms[a].pc = "fulfilled"

\* C9: every failing completion of a fetchWord call sets error to the
\* failure's message and loading to false, and the call ends normally; no
\* fetchWord call ever ends in a rejected promise.
C9_StoreNeverThrows ==
    [][\A i \in 1..Len(fetches) :
          Stepped(i) =>
             /\ fetches'[i].pc # "rejected"
             /\ \A msg \in AllMessages :
                   FailsWith(i, msg) =>
                      /\ error' = msg
                      /\ loading' = FALSE
                      /\ fetches'[i].pc = "fulfilled"]_fetches

\* Three calls have completed, the last completion being a body that did not
\* parse, and the store shows that failure.
C9_Witness ==
    /\ AllCompleted
    /\ Len(fetches) = 3
    /\ error \in ParseMessages
    /\ View = "Failure"

\* C10: a response with a status c that is not a success ends the fetch in
\* Failure with a message that contains c; the body is not read and wordData
\* keeps its value.
C10_HttpStatusFailure ==
    [][\A i \in 1..Len(fetches) : \A c \in Statuses :
          (Stepped(i) /\ ~(c >= 200 /\ c <= 299) /\ FetchResolves(i, c)) =>
              /\ View' = "Failure"
              /\ "status" \in DOMAIN error'
              /\ error'.status = c
              /\ fetches'[i].pc = "fulfilled"
              /\ wordData' = wordData]_fetches

\* A record is held and a later fetch has ended on status 500: the record is
\* still held.
C10_Witness ==
    /\ wordData = Lucid
    /\ error = [text |-> "HTTP error! Status: ", status |-> 500]
    /\ View = "Failure"

\* C11: when a fetchWord call that has had no other call in flight since it
\* started receives the parsed body b of a successful response, the store
\* shows Success and holds b itself: no field added, dropped or changed.
C11_RoundTrip ==
    [][\A i \in 1..Len(fetches) : \A b \in Bodies :
          (alone /\ i = Len(fetches) /\ Stepped(i) /\ JsonResolves(i, b)) =>
              /\ View' = "Success"
              /\ wordData' = b
              /\ error' = Null]_fetches

\* The third call ran alone, every call has completed, and the store shows the
\* record of the round trip.
C11_Witness ==
    /\ alone
    /\ Len(fetches) = 3
    /\ AllCompleted
    /\ View = "Success"
    /\ wordData = Lucid

\* C12: when the body of a successful response has no word and no failure is
\* recorded, the fetch ends in Success: error stays null, wordData is the
\* body, and the word shown is the placeholder "No word available".
C12_LenientParse ==
    [][\A i \in 1..Len(fetches) : \A b \in Bodies :
          ("word" \notin DOMAIN b /\ error = Null /\ Stepped(i)
             /\ JsonResolves(i, b)) =>
              /\ View' = "Success"
              /\ error' = Null
              /\ wordData' = b
              /\ WordShown(wordData') = "No word available"]_fetches

\* The store shows a body without a word, under the placeholder.
C12_Witness ==
    /\ View = "Success"
    /\ wordData = NoWord
    /\ WordShown(wordData) = "No word available"

\* The steps that invoke fetchWord: the two mount effects and the retry press.
Invocation ==
    \/ HomeScreenMount
    \/ wordData = Null /\ WordProviderMount
    \/ RetryPress

\* The fetchWord invocations so far.
Invocations == mounts + retries + (IF providerEffectRan THEN 1 ELSE 0)

\* C13: every fetchWord invocation, whatever the state (Loading with a request
\* pending included), sets loading to true and issues exactly one new request
\* beside those already issued; the requests issued are as many as the
\* invocations.
C13_RefetchUnconditional ==
    [][/\ Invocation =>
             /\ loading' = TRUE
             /\ Len(fetches') = Len(fetches) + 1
             /\ fetches'[Len(fetches')].pc = "awaitFetch"
             /\ \A j \in 1..Len(fetches) : fetches'[j] = fetches[j]
       /\ Len(fetches') = Invocations']_vars

\* Three invocations, each made while the earlier requests were pending, have
\* three requests in flight.
C13_Witness ==
    /\ Len(fetches) = 3
    /\ \A i \in 1..Len(fetches) : Pending(i)
    /\ loading

\* C14: a request is issued only by a mount effect or a retry press, and in
\* the Failure view of a mounted HomeScreen only by a retry press; the requests
\* issued never exceed the activation fetches plus the retry presses.
C14_NoAutomaticRetry ==
    [][/\ Len(fetches') # Len(fetches) => Invocation
       /\ (View = "Failure" /\ homeMounted /\ Len(fetches') # Len(fetches))
             => RetryPress
       /\ (\E i \in 1..Len(fetches) : Stepped(i))
             => Len(fetches') = Len(fetches)
       /\ Len(fetches') <= Invocations']_vars

\* After one activation and one retry every fetch has failed or completed, the
\* store shows Failure, and no request beyond those three exists.
C14_Witness ==
    /\ View = "Failure"
    /\ AllCompleted
    /\ mounts = 1
    /\ retries = 1
    /\ Len(fetches) = 3

\* C15: every change of the displayed state is a listed transition: Success
\* and Failure are entered only from Loading, and Loading is entered only by a
\* fetchWord invocation; the display never goes from Success to Failure or
\* from Failure to Success in one step, also when fetches overlap.
C15_ListedTransitions ==
    [][(homeMounted /\ homeMounted' /\ View' # View) =>
          \/ View = "Loading" /\ View' \in {"Success", "Failure"}
          \/ View' = "Loading" /\ Invocation]_vars

\* The order of the awaits of one arm sequence, and the rejection of any of
\* them.
ArmOrder ==
    {<<"requestPermissions", "cancelAll">>, <<"cancelAll", "schedule">>,
     <<"schedule", "fulfilled">>}
    \cup {<<pc, "rejected">> : pc \in {"requestPermissions", "cancelAll", "schedule"}}

\* C16: each arm sequence starts with the permission request and moves only
\* from the permission request to cancel-all and from cancel-all to the
\* schedule call, each step on the completion of the one before: the OS learns
\* the permission only at a sequence's first await, drops the schedules only at
\* a sequence's cancel-all, and gains a schedule only from a sequence whose
\* cancel-all has completed.
C16_StepsInOrder ==
    [][/\ Len(arms') > Len(arms) =>
             /\ Len(arms') = Len(arms) + 1
             /\ arms'[Len(arms')].pc = "requestPermissions"
       /\ \A a \in 1..Len(arms) :
             arms'[a].pc # arms[a].pc => <<arms[a].pc, arms'[a].pc>> \in ArmOrder
       /\ permission' # permission =>
             \E a \in 1..Len(arms) : /\ arms[a].pc = "requestPermissions"
                                      /\ arms'[a].pc = "cancelAll"
       /\ Len(scheduled') < Len(scheduled) =>
             \E a \in 1..Len(arms) : /\ arms[a].pc = "cancelAll"
                                      /\ arms'[a].pc = "schedule"
       /\ Len(scheduled') > Len(scheduled) =>
             \E a \in 1..Len(arms) : /\ arms[a].pc = "schedule"
                                      /\ arms'[a].pc = "fulfilled"
                                      /\ permission # "undetermined"
      ]_<<arms, permission, scheduled>>

\* The first arm sequence has gone through its three steps, and the second has
\* completed its cancel-all, which dropped the first one's schedule, and is
\* awaiting its own schedule call.
C16_Witness ==
    /\ Len(arms) = 2
    /\ arms[1].pc = "fulfilled"
    /\ arms[2].pc = "schedule"
    /\ scheduled = <<>>

\* C17: every notification the OS holds has the same fixed content and the
\* trigger hour 9, minute 0, repeating daily, whichever variant of
\* scheduleDailyNotification created it and at whatever time of day; the two
\* variants install the same trigger, and the next-occurrence date the second
\* variant computes does not change it.
C17_FixedDailyTrigger ==
    /\ \A k \in 1..Len(scheduled) :
          /\ DOMAIN scheduled[k].trigger = {"hour", "minute", "daily"}
          /\ scheduled[k].content = [title |-> "Word of the Day",
                                     body |-> "Tap to learn your new word!",
                                     sound |-> TRUE]
          /\ scheduled[k].trigger = [hour |-> 9, minute |-> 0, daily |-> TRUE]
    /\ \A k, l \in 1..Len(scheduled) : scheduled[k] = scheduled[l]

\* Two arm sequences have each created a notification, and the OS holds both.
C17_Witness ==
    /\ Len(scheduled) = 2
    /\ \A a \in 1..Len(arms) : arms[a].pc = "fulfilled"

\* C18: if every request eventually answers or fails, every state in which a
\* fetch is in flight and loading is true is eventually followed by a state
\* with loading false; and whenever every issued fetch has completed, loading
\* is false.
C18_EveryFetchCycleEnds ==
    /\ (loading /\ \E i \in 1..Len(fetches) : Pending(i)) ~> ~loading
    /\ []((Len(fetches) >= 1 /\ AllCompleted) => ~loading)

\* Three fetch cycles have run and ended, and the store is not Loading.
C18_Witness ==
    /\ Len(fetches) = 3
    /\ AllCompleted
    /\ ~loading
    /\ retries = 1

\* C19: no step of an arm sequence changes wordData, loading, error or the
\* fetches, no step of a fetch changes the scheduled notifications, the
\* permission or the arm sequences, and an arm sequence in flight can take its
\* next step whatever the store holds and whatever the fetches have done.
C19_SchedulerFetcherIndependent ==
    /\ [][/\ (\E a \in 1..Len(arms) : arms'[a].pc # arms[a].pc) =>
                 UNCHANGED <<wordData, loading, error, fetches>>
          /\ (\E i \in 1..Len(fetches) : Stepped(i)) =>
                 UNCHANGED <<scheduled, permission, arms>>]_vars
    /\ [](\A a \in 1..Len(arms) :
             (Settled /\ InFlight(a)) => ENABLED ArmStepOf(a))

\* Every fetch has failed, no record is held, and the arm sequence has run to
\* its end and left its notification.
C19_Witness ==
    /\ Len(arms) = 1
    /\ arms[1].pc = "fulfilled"
    /\ Len(scheduled) = 1
    /\ AllCompleted
    /\ wordData = Null
    /\ View = "Failure"

\* C20: in every reachable state in which some request has not completed,
\* loading is true, also after one of two overlapping fetches has completed.
C20_LoadingWhileInFlight ==
    (\E i \in 1..Len(fetches) : Pending(i)) => loading

\* C21: the teardown of HomeScreen cancels nothing: it leaves every fetch and
\* the store as they are, a fetch pending after the teardown can still take its
\* next step, and its completion still sets loading to false and writes
\* wordData (a body) or error (a failure).
C21_NotCancelledOnUnmount ==
    /\ [][/\ (homeMounted /\ ~homeMounted') =>
                 UNCHANGED <<wordData, loading, error, fetches>>
          /\ \A i \in 1..Len(fetches) :
                (~homeMounted /\ Stepped(i) /\ Completed(i)') =>
                    /\ loading' = FALSE
                    /\ fetches'[i].pc = "fulfilled"
                    /\ \A data \in Bodies :
                          JsonResolves(i, data) => wordData' = data
                    /\ \A msg \in AllMessages :
                          FailsWith(i, msg) => error' = msg]_vars
    /\ [](\A i \in 1..Len(fetches) :
             (Settled /\ ~homeMounted /\ Pending(i)) => ENABLED FetchStepOf(i))

\* HomeScreen has been torn down once; of the two fetches of the activation
\* one has completed and written its body, and the other, pending at the
\* teardown, is still in flight.
C21_Witness ==
    /\ ~homeMounted
    /\ aborted = 1
    /\ mounts = 1
    /\ Len(fetches) = 2
    /\ fetches[1].pc = "fulfilled"
    /\ Pending(2)
    /\ wordData = Lucid
    /\ ~loading

\* C22: the completion of a successful fetch writes wordData and loading and
\* leaves error as it is, and error goes back to null only in a fetchWord
\* invocation: when a failure's message is held as the body arrives, it is
\* still held afterwards and the store shows Failure.
C22_SuccessLeavesError ==
    [][/\ \A i \in 1..Len(fetches) : \A data \in Bodies :
             (Stepped(i) /\ JsonResolves(i, data)) =>
                 /\ error' = error
                 /\ wordData' = data
                 /\ loading' = FALSE
                 /\ error # Null => View' = "Failure"
       /\ (error # Null /\ error' = Null) => Invocation]_vars

\* Both fetches of the first activation have completed: one failed, the other
\* delivered a body, and the failure's message is held beside the record.
C22_Witness ==
    /\ Len(fetches) = 2
    /\ AllCompleted
    /\ error \in NetworkMessages
    /\ wordData = NoWord
    /\ View = "Failure"

\* C23: the retry press happens only in the Failure view, and once the store
\* shows Success with no fetch pending, no further request is issued and
\* wordData, loading and error do not change again.
C23_SuccessIsFinal ==
    [][/\ retries' # retries => View = "Failure"
       /\ (View = "Success" /\ AllCompleted) =>
             /\ Len(fetches') = Len(fetches)
             /\ UNCHANGED <<wordData, loading, error>>]_vars

====
